---- MODULE Spec2Model ----
(***************************************************************************)
(* Model of the build-environment tooling of cpp-hash-tables:              *)
(*   - scripts/install_conan_dependencies.py, the command line helper that *)
(*     provisions build/<build_type> and delegates to "conan install";     *)
(*   - conanfile.py, the package recipe (requirements, packaging and       *)
(*     package identity).                                                  *)
(* Strings are TLA+ strings, argument vectors and commands are sequences   *)
(* of strings, file system paths are sequences of path components.         *)
(***************************************************************************)
EXTENDS Integers, Sequences, FiniteSets, TLC

VARIABLES
    inv,        \* inv[p]: the state of invocation p of install_conan_dependencies.py
    dirs,       \* the directories that exist in the file system
    writable,   \* whether the file system lets a new directory be created
    recipe      \* the state of one evaluation of the recipe conanfile.py

vars == <<inv, dirs, writable, recipe>>

(***************************************************************************)
(* Bounds of the model.                                                    *)
(***************************************************************************)
\* The longest command line (number of tokens after the script name).
MaxArgv == 4
\* The number of invocations that may run at the same time.
NumInvocations == 2

Procs == 1..NumInvocations

\* The values click.Choice accepts for build_type.
BuildTypes == {"Debug", "Release", "RelWithDebInfo", "MinSizeRel"}

\* Tokens a caller may put on the command line: the supported build types,
\* an unsupported one, an option-like token, a plain one and the separator.
\* (--help, the one option click adds to every command, is not among them:
\* the model is about invocations that ask for an installation.)
Tokens == BuildTypes \cup {"Foo", "-pr", "myprofile", "--"}

\* The tokens of the alphabet that start with "-" and are longer than one
\* character (TLA+ strings are opaque, so the test on the first character is
\* tabulated over the alphabet).
DashTokens == {"-pr", "--"}

\* Return codes subprocess.run may report: an exit code of the child
\* (0..255), or -N when the child was terminated by signal N (SIGKILL = 9).
ReturnCodes == {-9, 0, 1, 2, 255}

\* Sequences over S of length at most n.
SeqUpTo(S, n) == UNION {[1..k -> S] : k \in 0..n}

ArgvUniverse == SeqUpTo(Tokens, MaxArgv)

(***************************************************************************)
(* File system paths.                                                      *)
(***************************************************************************)
\* THIS_DIR = Path(__file__).absolute().parent: the scripts directory.
THIS_DIR == <<"cpp-hash-tables", "scripts">>

\* Path.parent
Parent(path) == SubSeq(path, 1, Len(path) - 1)

\* The project root, where conanfile.py lives.
ProjectRoot == Parent(THIS_DIR)

\* A mutant of make_build_path: the build type is left out of the path.
make_build_path_shared(build_type) == ProjectRoot \o <<"build">>

\* make_build_path: THIS_DIR.parent / "build" / build_type
make_build_path(build_type) == ProjectRoot \o <<"build", build_type>>

\* The path and all its ancestors.
Prefixes(path) == {SubSeq(path, 1, k) : k \in 1..Len(path)}

\* os.makedirs(path, exist_ok=True) on the file system fs: an existing
\* directory is left as it is; a missing one is created with its missing
\* ancestors, which fails with an OSError when the file system refuses.
\* makedirs tolerates a directory that appears between its test and its
\* mkdir call, so the call is one step of the model.
makedirs(path, fs, w) ==
    IF path \in fs
    THEN [ok |-> TRUE, error |-> "", dirs |-> fs]
    ELSE IF w
         THEN [ok |-> TRUE, error |-> "", dirs |-> fs \cup Prefixes(path)]
         ELSE [ok |-> FALSE, error |-> "PermissionError", dirs |-> fs]

(***************************************************************************)
(* Command line parsing, as the click decorators declare it: one argument  *)
(* build_type (nargs=1, a Choice) and one argument additional_args         *)
(* (nargs=-1); no option is declared and unknown options are not ignored.  *)
(***************************************************************************)
\* The parser takes a token for an option when it starts with "-" and is
\* longer than one character.
IsOptionLike(arg) == arg \in DashTokens

\* The scan of the command line: positional tokens are collected until the
\* end or the separator "--", which is dropped and ends option processing;
\* an option-like token before it is an unknown option.
RECURSIVE ScanArgs(_, _)
ScanArgs(rargs, largs) ==
    IF rargs = <<>> THEN [error |-> "", args |-> largs]
    ELSE IF Head(rargs) = "--" THEN [error |-> "", args |-> largs \o Tail(rargs)]
    ELSE IF IsOptionLike(Head(rargs)) THEN [error |-> "NoSuchOption", args |-> <<>>]
    ELSE ScanArgs(Tail(rargs), Append(largs, Head(rargs)))

\* A mutant of ChoiceOk: every value is accepted.
ChoiceAny(value) == TRUE

\* click.Choice(["Debug", "Release", "RelWithDebInfo", "MinSizeRel"])
ChoiceOk(value) == value \in BuildTypes

\* The whole parse: the positional tokens are split into build_type (the
\* first) and additional_args (the rest); a missing or unsupported
\* build_type is a usage error.
ParseArgs(argv) ==
    LET scan == ScanArgs(argv, <<>>) IN
    IF scan.error # ""
    THEN [error |-> scan.error, build_type |-> "", additional_args |-> <<>>]
    ELSE IF scan.args = <<>>
    THEN [error |-> "MissingParameter", build_type |-> "", additional_args |-> <<>>]
    ELSE IF ~ChoiceOk(Head(scan.args))
    THEN [error |-> "BadParameter", build_type |-> "", additional_args |-> <<>>]
    ELSE [error |-> "", build_type |-> Head(scan.args),
          additional_args |-> Tail(scan.args)]

(***************************************************************************)
(* The install command.                                                    *)
(***************************************************************************)
\* The flags in front of the passthrough arguments.
FixedFlags(build_type) ==
    <<"conan", "install", "--build", "missing",
      "-s", "build_type=" \o build_type,
      "-o", "requirements_for_tests=True">>

\* A mutant of MakeCommand: the passthrough arguments come first and the
\* test requirements are not asked for.
MakeCommandLoose(build_type, additional_args) ==
    <<"conan", "install">> \o additional_args
    \o <<"--build", "missing", "-s", "build_type=" \o build_type>>
    \o <<"../..">>

\* command = [fixed flags] + list(additional_args) + ["../.."]
MakeCommand(build_type, additional_args) ==
    FixedFlags(build_type) \o additional_args \o <<"../..">>

\* The exit status the operating system reports for exit(code): the low
\* eight bits of the code.
ExitStatus(code) == code % 256

(***************************************************************************)
(* One invocation of the script.                                           *)
(***************************************************************************)
Phases == {"Idle", "Start", "Validated", "DirectoryEnsured", "CommandConstructed",
           "Delegated", "Success", "Failed",
           "UsageError", "FileSystemError", "SpawnError"}

Terminal == {"Success", "Failed", "UsageError", "FileSystemError", "SpawnError"}

\* An invocation slot nobody has started yet.
IdleInvocation ==
    [phase |-> "Idle",
     argv |-> <<>>,             \* the command line
     build_type |-> "",         \* the parsed build_type
     additional_args |-> <<>>,  \* the parsed additional_args
     build_path |-> <<>>,       \* make_build_path(build_type)
     made |-> 0,                \* calls of os.makedirs
     command |-> <<>>,          \* the constructed command
     stdout |-> <<>>,           \* the lines printed
     spawned |-> 0,             \* child processes started
     cwd |-> <<>>,              \* working directory of the child
     returncode |-> <<>>,       \* <<result.returncode>> once the child ended
     error |-> "",              \* the exception that ended the invocation
     exit_arg |-> <<>>,         \* <<code>> once exit(code) was called
     exit_status |-> <<>>]      \* <<status>> once the process ended

TypeOK ==
    /\ DOMAIN inv = Procs
    /\ \A p \in Procs : inv[p].phase \in Phases
    /\ dirs \subseteq Prefixes(ProjectRoot) \cup {THIS_DIR}
                      \cup UNION {Prefixes(make_build_path(b)) : b \in BuildTypes}
    /\ writable \in BOOLEAN

\* The caller starts the script with a command line out of the set given.
Invoke(p, lines) ==
    /\ inv[p].phase = "Idle"
    /\ \E argv \in lines :
          inv' = [inv EXCEPT ![p] = [@ EXCEPT !.phase = "Start", !.argv = argv]]
    /\ UNCHANGED <<dirs, writable, recipe>>

\* Lines 28-35: click parses the command line before the function body
\* runs; a usage error ends the process with status 2.
Validate(p) ==
    /\ inv[p].phase = "Start"
    /\ LET parsed == ParseArgs(inv[p].argv) IN
       inv' = [inv EXCEPT ![p] =
                 IF parsed.error # ""
                 THEN [@ EXCEPT !.phase = "UsageError",
                                !.error = parsed.error,
                                !.exit_status = <<2>>]
                 ELSE [@ EXCEPT !.phase = "Validated",
                                !.build_type = parsed.build_type,
                                !.additional_args = parsed.additional_args]]
    /\ UNCHANGED <<dirs, writable, recipe>>

\* A mutant of EnsureDirectory: a failure of makedirs is swallowed.
EnsureDirectoryLenient(p) ==
    /\ inv[p].phase = "Validated"
    /\ LET build_path == make_build_path(inv[p].build_type)
           made == makedirs(build_path, dirs, writable) IN
       /\ dirs' = made.dirs
       /\ inv' = [inv EXCEPT ![p] =
                    [@ EXCEPT !.phase = "DirectoryEnsured",
                              !.build_path = build_path,
                              !.made = @ + 1]]
    /\ UNCHANGED <<writable, recipe>>

\* Lines 43-45: build_path = make_build_path(build_type);
\* os.makedirs(build_path, exist_ok=True). An OSError is not caught: it ends
\* the process with a traceback and status 1.
EnsureDirectory(p) ==
    /\ inv[p].phase = "Validated"
    /\ LET build_path == make_build_path(inv[p].build_type)
           made == makedirs(build_path, dirs, writable) IN
       /\ dirs' = made.dirs
       /\ inv' = [inv EXCEPT ![p] =
                    IF made.ok
                    THEN [@ EXCEPT !.phase = "DirectoryEnsured",
                                   !.build_path = build_path,
                                   !.made = @ + 1]
                    ELSE [@ EXCEPT !.phase = "FileSystemError",
                                   !.build_path = build_path,
                                   !.made = @ + 1,
                                   !.error = made.error,
                                   !.exit_status = <<1>>]]
    /\ UNCHANGED <<writable, recipe>>

\* Lines 47-63: the command is built and printed.
ConstructCommand(p) ==
    /\ inv[p].phase = "DirectoryEnsured"
    /\ LET command == MakeCommand(inv[p].build_type, inv[p].additional_args) IN
       inv' = [inv EXCEPT ![p] =
                 [@ EXCEPT !.phase = "CommandConstructed",
                           !.command = command,
                           !.stdout = Append(@, <<"> run command: ", command>>)]]
    /\ UNCHANGED <<dirs, writable, recipe>>

\* A mutant of Spawn: the child is started without waiting for the
\* directory and the command.
SpawnEarly(p) ==
    /\ inv[p].phase \in {"Validated", "CommandConstructed"}
    /\ inv' = [inv EXCEPT ![p] =
                 [@ EXCEPT !.phase = "Delegated",
                           !.spawned = @ + 1,
                           !.cwd = make_build_path(inv[p].build_type)]]
    /\ UNCHANGED <<dirs, writable, recipe>>

\* Line 64, first half: subprocess.run starts the child in build_path.
Spawn(p) ==
    /\ inv[p].phase = "CommandConstructed"
    /\ inv' = [inv EXCEPT ![p] =
                 [@ EXCEPT !.phase = "Delegated",
                           !.spawned = @ + 1,
                           !.cwd = inv[p].build_path]]
    /\ UNCHANGED <<dirs, writable, recipe>>

\* Line 64 when the executable cannot be started: subprocess.run raises an
\* OSError, which is not caught (status 1).
SpawnFails(p) ==
    /\ inv[p].phase = "CommandConstructed"
    /\ inv' = [inv EXCEPT ![p] =
                 [@ EXCEPT !.phase = "SpawnError",
                           !.error = "FileNotFoundError",
                           !.exit_status = <<1>>]]
    /\ UNCHANGED <<dirs, writable, recipe>>

\* A mutant of Relay: every failure of the child is reported as 1.
RelayTranslated(p, rc) ==
    /\ inv[p].phase = "Delegated"
    /\ LET code == IF rc = 0 THEN 0 ELSE 1 IN
       inv' = [inv EXCEPT ![p] =
                 [@ EXCEPT !.phase = IF rc = 0 THEN "Success" ELSE "Failed",
                           !.returncode = <<rc>>,
                           !.exit_arg = <<code>>,
                           !.exit_status = <<ExitStatus(code)>>]]
    /\ UNCHANGED <<dirs, writable, recipe>>

\* Line 64, second half, and line 66: the child ends with return code rc
\* (check=False: no exception on a failure) and exit(result.returncode).
Relay(p, rc) ==
    /\ inv[p].phase = "Delegated"
    /\ inv' = [inv EXCEPT ![p] =
                 [@ EXCEPT !.phase = IF rc = 0 THEN "Success" ELSE "Failed",
                           !.returncode = <<rc>>,
                           !.exit_arg = <<rc>>,
                           !.exit_status = <<ExitStatus(rc)>>]]
    /\ UNCHANGED <<dirs, writable, recipe>>

\* The process is gone; the caller may start the script again.
Reap(p) ==
    /\ inv[p].phase \in Terminal
    /\ inv' = [inv EXCEPT ![p] = IdleInvocation]
    /\ UNCHANGED <<dirs, writable, recipe>>

\* The steps of install_conan_dependencies after the start.
Step(p) ==
    \/ Validate(p)
    \/ EnsureDirectory(p)
    \/ ConstructCommand(p)
    \/ Spawn(p)
    \/ SpawnFails(p)
    \/ \E rc \in ReturnCodes : Relay(p, rc)

(***************************************************************************)
(* The recipe conanfile.py.                                                *)
(***************************************************************************)
\* A version as the characters of its text.
Chars_3_0_0pre4 == <<"3", ".", "0", ".", "0", "p", "r", "e", "4">>
Chars_42 == <<"4", "2">>
Chars_0_5_0 == <<"0", ".", "5", ".", "0">>

\* "catch2/3.0.0pre4@MusicScience37+conan-extra-packages/stable"
Catch2 ==
    [name |-> "catch2", version |-> Chars_3_0_0pre4,
     user |-> "MusicScience37+conan-extra-packages", channel |-> "stable"]

\* "trompeloeil/42"
Trompeloeil ==
    [name |-> "trompeloeil", version |-> Chars_42, user |-> "", channel |-> ""]

\* "cpp_stat_bench/0.5.0@MusicScience37+cpp-stat-bench/stable"
CppStatBench ==
    [name |-> "cpp_stat_bench", version |-> Chars_0_5_0,
     user |-> "MusicScience37+cpp-stat-bench", channel |-> "stable"]

\* settings = "os", "compiler", "build_type", "arch"
SettingNames == {"os", "compiler", "build_type", "arch"}

\* The values a caller's profile may give the settings.
SettingValues ==
    [os |-> {"Linux", "Windows", "Macos"},
     compiler |-> {"gcc", "clang"},
     build_type |-> BuildTypes,
     arch |-> {"x86_64", "armv8"}]

SettingsUniverse ==
    [os : SettingValues.os, compiler : SettingValues.compiler,
     build_type : SettingValues.build_type, arch : SettingValues.arch]

\* options = {"requirements_for_tests": [True, False]}
OptionValues == BOOLEAN

\* default_options = {"requirements_for_tests": False}
DefaultRequirementsForTests == FALSE

\* The files exported with the recipe and found in the source tree when
\* package() runs, as [stem, ext].
SourceFiles ==
    {[stem |-> "include/hash_tables/open_address_table", ext |-> "h"],
     [stem |-> "include/hash_tables/hashes/std_hash", ext |-> "h"],
     [stem |-> "CMakeLists", ext |-> "txt"],
     [stem |-> "scripts/install_conan_dependencies", ext |-> "py"],
     [stem |-> "tests/units/open_address_table_test", ext |-> "cpp"]}

\* requirements(): pass
requirements(requirements_for_tests) == <<>>

\* A mutant of build_requirements: the benchmark framework is forgotten and
\* the test framework is required whatever the option says.
build_requirements_drift(requirements_for_tests) ==
    IF requirements_for_tests THEN <<Catch2, Trompeloeil>> ELSE <<Catch2>>

\* build_requirements(): three build_requires calls under the option.
build_requirements(requirements_for_tests) ==
    IF requirements_for_tests
    THEN <<Catch2, Trompeloeil, CppStatBench>>
    ELSE <<>>

\* package(): self.copy("*.h")
package(files) == {f \in files : f.ext = "h"}

\* The information the package id is computed from before package_id()
\* runs: the values of the settings and of the options and the requirements.
DefaultInfo(settings, requirements_for_tests, requires) ==
    [settings |-> {<<n, settings[n]>> : n \in SettingNames},
     options |-> {<<"requirements_for_tests", requirements_for_tests>>},
     requires |-> {requires[i] : i \in DOMAIN requires}]

\* info.header_only(): settings, options and requirements are cleared.
header_only(info) ==
    [settings |-> {}, options |-> {}, requires |-> {}]

\* A mutant of package_id: the default identity, header_only() not called.
package_id_default(settings, requirements_for_tests) ==
    DefaultInfo(settings, requirements_for_tests,
                requirements(requirements_for_tests))

\* package_id(): self.info.header_only(); the identity is the (injective)
\* hash of the information, modelled as the information itself.
package_id(settings, requirements_for_tests) ==
    header_only(DefaultInfo(settings, requirements_for_tests,
                            requirements(requirements_for_tests)))

\* A recipe nobody has loaded yet.
IdleRecipe ==
    [step |-> "idle",
     settings |-> <<>>,                 \* self.settings
     requirements_for_tests |-> DefaultRequirementsForTests,
     requires |-> <<>>,                 \* declared by requirements()
     build_requires |-> <<>>,           \* declared by build_requirements()
     packaged |-> {},                   \* files copied by package()
     id |-> <<>>]                       \* <<identity>> once package_id() ran

\* The resolution tool loads the recipe with the caller's settings and option.
Load(settings, requirements_for_tests) ==
    /\ recipe.step = "idle"
    /\ recipe' = [recipe EXCEPT !.step = "loaded",
                                !.settings = settings,
                                !.requirements_for_tests = requirements_for_tests]
    /\ UNCHANGED <<inv, dirs, writable>>

\* conanfile.py lines 24-25
Requirements ==
    /\ recipe.step = "loaded"
    /\ recipe' = [recipe EXCEPT !.step = "requirements",
                                !.requires = requirements(recipe.requirements_for_tests)]
    /\ UNCHANGED <<inv, dirs, writable>>

\* conanfile.py lines 27-35
BuildRequirements ==
    /\ recipe.step = "requirements"
    /\ recipe' = [recipe EXCEPT !.step = "build_requirements",
                                !.build_requires =
                                    build_requirements(recipe.requirements_for_tests)]
    /\ UNCHANGED <<inv, dirs, writable>>

\* conanfile.py lines 37-38
Package ==
    /\ recipe.step = "build_requirements"
    /\ recipe' = [recipe EXCEPT !.step = "package",
                                !.packaged = package(SourceFiles)]
    /\ UNCHANGED <<inv, dirs, writable>>

\* conanfile.py lines 40-41
PackageId ==
    /\ recipe.step = "package"
    /\ recipe' = [recipe EXCEPT !.step = "package_id",
                                !.id = <<package_id(recipe.settings,
                                                    recipe.requirements_for_tests)>>]
    /\ UNCHANGED <<inv, dirs, writable>>

(***************************************************************************)
(* Specifications.                                                         *)
(***************************************************************************)
InitInstaller ==
    /\ inv = [p \in Procs |-> IdleInvocation]
    /\ dirs = Prefixes(THIS_DIR)
    /\ writable \in BOOLEAN

Init ==
    /\ InitInstaller
    /\ recipe = IdleRecipe

\* One caller that runs the script again and again with any command line.
Next ==
    \/ Invoke(1, ArgvUniverse)
    \/ Step(1)
    \/ Reap(1)

Spec == Init /\ [][Next]_vars

\* Command lines of the concurrent callers: a supported build type alone.
ConcArgv == {<<b>> : b \in BuildTypes}

\* Several callers (a pipeline's jobs) run the script at the same time.
NextConc ==
    \E p \in Procs :
        \/ Invoke(p, ConcArgv)
        \/ Step(p)

SpecConc == Init /\ [][NextConc]_vars

\* One evaluation of the recipe for any settings and option value.
NextRecipe ==
    \/ \E s \in SettingsUniverse, o \in OptionValues : Load(s, o)
    \/ Requirements
    \/ BuildRequirements
    \/ Package
    \/ PackageId

SpecRecipe == Init /\ [][NextRecipe]_vars

(***************************************************************************)
(* Properties.                                                             *)
(***************************************************************************)
\* The token in the build_type position of a command line: the first one,
\* or the one after a leading separator.
RequestedBuildType(argv) ==
    IF Head(argv) = "--" /\ Len(argv) >= 2 THEN argv[2] ELSE Head(argv)

\* C1: an invocation whose build_type is not one of Debug, Release,
\* RelWithDebInfo, MinSizeRel ends, once the command line is validated, in a
\* usage error; it has called makedirs never, built and printed no command
\* and started no child.
C1_InvalidBuildTypeRejected ==
    \A p \in Procs :
        (/\ inv[p].phase \notin {"Idle", "Start"}
         /\ inv[p].argv # <<>>
         /\ RequestedBuildType(inv[p].argv) \notin
                {"Debug", "Release", "RelWithDebInfo", "MinSizeRel"})
        => /\ inv[p].phase = "UsageError"
           /\ inv[p].error \in {"BadParameter", "NoSuchOption", "MissingParameter"}
           /\ inv[p].made = 0
           /\ inv[p].spawned = 0
           /\ inv[p].command = <<>>
           /\ inv[p].stdout = <<>>
           /\ inv[p].returncode = <<>>

\* C1 witness: the command line "Foo" was rejected as a bad parameter.
C1_Witness ==
    \E p \in Procs :
        /\ inv[p].phase = "UsageError"
        /\ inv[p].argv = <<"Foo">>
        /\ inv[p].error = "BadParameter"

\* C2 as claimed: the exit code of the script is exactly the return code
\* reported for the child, also for a child terminated by a signal.
C2_ExitCodeIsReturnCode ==
    \A p \in Procs :
        inv[p].returncode # <<>> => inv[p].exit_status = inv[p].returncode

\* C2 amended: the script passes the reported return code unchanged to
\* exit(); the exit status of the script equals it for every code in
\* 0..255, and is 256 - N for the code -N reported for a child that signal N
\* terminated.
C2_ExitCodeRelayed ==
    \A p \in Procs :
        inv[p].returncode # <<>> =>
            LET rc == inv[p].returncode[1] IN
            /\ inv[p].phase = (IF rc = 0 THEN "Success" ELSE "Failed")
            /\ inv[p].exit_arg = <<rc>>
            /\ rc \in 0..255 => inv[p].exit_status = <<rc>>
            /\ rc \in -255..-1 => inv[p].exit_status = <<256 + rc>>

\* C2 witness: a child killed by SIGKILL (return code -9) and the script
\* ended with status 247.
C2_Witness ==
    \E p \in Procs :
        /\ inv[p].phase = "Failed"
        /\ inv[p].returncode = <<-9>>
        /\ inv[p].exit_arg = <<-9>>
        /\ inv[p].exit_status = <<247>>

\* C3 as claimed: for a supported build_type followed on the command line by
\* any passthrough tokens, option-like ones included, the invocation is not
\* rejected and the command it constructs is the fixed flags, then those
\* tokens verbatim and in order, then the recipe path.
C3_PassthroughVerbatim ==
    \A p \in Procs :
        (/\ inv[p].phase \notin {"Idle", "Start"}
         /\ inv[p].argv # <<>>
         /\ Head(inv[p].argv) \in BuildTypes)
        => /\ inv[p].phase # "UsageError"
           /\ inv[p].command # <<>> =>
                inv[p].command =
                    <<"conan", "install", "--build", "missing",
                      "-s", "build_type=" \o Head(inv[p].argv),
                      "-o", "requirements_for_tests=True">>
                    \o Tail(inv[p].argv) \o <<"../..">>

\* C4: every constructed command starts with conan install --build missing
\* -s build_type=<the requested build type> -o requirements_for_tests=True,
\* whatever the passthrough arguments are.
C4_FixedFlagsAlways ==
    \A p \in Procs :
        inv[p].command # <<>> =>
            /\ inv[p].build_type \in BuildTypes
            /\ inv[p].build_type = RequestedBuildType(inv[p].argv)
            /\ Len(inv[p].command) >= 8
            /\ SubSeq(inv[p].command, 1, 8) =
                   <<"conan", "install", "--build", "missing",
                     "-s", "build_type=" \o inv[p].build_type,
                     "-o", "requirements_for_tests=True">>

\* C4 witness: a command constructed for Release with the passthrough
\* arguments -pr myprofile (given after the separator).
C4_Witness ==
    \E p \in Procs :
        /\ inv[p].phase = "CommandConstructed"
        /\ inv[p].argv = <<"Release", "--", "-pr", "myprofile">>
        /\ inv[p].additional_args = <<"-pr", "myprofile">>
        /\ inv[p].command[9] = "-pr"
        /\ inv[p].command[11] = "../.."

\* The order of the phases of one invocation, with its error exits; a
\* terminal phase is left only when the caller starts the script anew.
PhaseOrder ==
    {<<"Idle", "Start">>,
     <<"Start", "Validated">>, <<"Start", "UsageError">>,
     <<"Validated", "DirectoryEnsured">>, <<"Validated", "FileSystemError">>,
     <<"DirectoryEnsured", "CommandConstructed">>,
     <<"CommandConstructed", "Delegated">>, <<"CommandConstructed", "SpawnError">>,
     <<"Delegated", "Success">>, <<"Delegated", "Failed">>}
    \cup {<<t, "Idle">> : t \in Terminal}

TestRequirementPins ==
    {<<"catch2", <<"3", ".", "0", ".", "0", "p", "r", "e", "4">>>>,
     <<"trompeloeil", <<"4", "2">>>>,
     <<"cpp_stat_bench", <<"0", ".", "5", ".", "0">>>>}

\* A requirement carries an exact version: a version is given and it is
\* neither a range expression nor a wildcard.
ExactlyPinned(ref) ==
    /\ ref.name # ""
    /\ ref.version # <<>>
    /\ Head(ref.version) # "["
    /\ \A i \in DOMAIN ref.version : ref.version[i] # "*"

\* C6: once build_requirements() has run, the build requirements are none
\* when requirements_for_tests is false and exactly catch2, trompeloeil and
\* cpp_stat_bench, each with an exact version, when it is true; the
\* requirements declared by requirements() are the same for both values.
C6_BuildRequirementsByOption ==
    /\ recipe.step \in {"build_requirements", "package", "package_id"} =>
          /\ ~recipe.requirements_for_tests => recipe.build_requires = <<>>
          /\ recipe.requirements_for_tests =>
                /\ Len(recipe.build_requires) = 3
                /\ {<<recipe.build_requires[i].name, recipe.build_requires[i].version>> :
                       i \in 1..3} = TestRequirementPins
                /\ \A i \in 1..3 : ExactlyPinned(recipe.build_requires[i])
    /\ recipe.step \in {"requirements", "build_requirements", "package", "package_id"} =>
          /\ recipe.requires = requirements(~recipe.requirements_for_tests)
          /\ \A i \in DOMAIN recipe.requires : ExactlyPinned(recipe.requires[i])

\* C6 witness: build_requirements() ran with the option set.
C6_Witness ==
    /\ recipe.step = "build_requirements"
    /\ recipe.requirements_for_tests
    /\ Len(recipe.build_requires) = 3

\* C7: the identity package_id() computed is the identity of every other
\* configuration of settings and option.
C7_IdentityIgnoresConfiguration ==
    recipe.id # <<>> =>
        \A s \in SettingsUniverse, o \in OptionValues :
            package_id(s, o) = recipe.id[1]

\* C7 witness: the identity was computed for clang, armv8, Debug with the
\* test requirements on.
C7_Witness ==
    /\ recipe.step = "package_id"
    /\ recipe.id # <<>>
    /\ recipe.settings.compiler = "clang"
    /\ recipe.settings.arch = "armv8"
    /\ recipe.settings.build_type = "Debug"
    /\ recipe.requirements_for_tests

\* C8: when the build directory is missing and cannot be created, the step
\* that ensures it ends the invocation with the OSError of makedirs; such an
\* invocation called makedirs once, built and printed no command, started no
\* child, and does nothing more.
C8_MkdirFailurePropagates ==
    /\ [][\A p \in Procs :
            (/\ inv[p].phase = "Validated"
             /\ inv'[p].phase # "Validated"
             /\ ProjectRoot \o <<"build", inv[p].build_type>> \notin dirs
             /\ ~writable)
            => /\ inv'[p].phase = "FileSystemError"
               /\ inv'[p].error = "PermissionError"
               /\ dirs' = dirs]_vars
    /\ [][\A p \in Procs :
            inv[p].phase = "FileSystemError" =>
                inv'[p] \in {inv[p], IdleInvocation}]_vars
    /\ [](\A p \in Procs :
            inv[p].phase = "FileSystemError" =>
                /\ inv[p].error = "PermissionError"
                /\ inv[p].made = 1
                /\ inv[p].command = <<>>
                /\ inv[p].stdout = <<>>
                /\ inv[p].spawned = 0
                /\ inv[p].exit_arg = <<>>
                /\ inv[p].exit_status = <<1>>)

\* C8 witness: an invocation for Release ended by the failure of makedirs.
C8_Witness ==
    \E p \in Procs :
        /\ inv[p].phase = "FileSystemError"
        /\ inv[p].build_type = "Release"
        /\ make_build_path("Release") \notin dirs

\* C10: distinct build types have distinct build directories, the child of
\* an invocation runs in the directory of its build type, so two children
\* running at once share a directory only with the same build type; and an
\* invocation fails at the directory only when the file system refuses to
\* create a missing one, never because another invocation made it.
C10_SharedDirectoryOnlySameBuildType ==
    /\ \A b1, b2 \in BuildTypes :
          make_build_path(b1) = make_build_path(b2) => b1 = b2
    /\ \A p, q \in Procs :
          (/\ inv[p].phase = "Delegated"
           /\ inv[q].phase = "Delegated"
           /\ inv[p].cwd = inv[q].cwd)
          => inv[p].build_type = inv[q].build_type
    /\ \A p \in Procs :
          /\ inv[p].phase = "Delegated" =>
                inv[p].cwd = ProjectRoot \o <<"build", inv[p].build_type>>
          /\ inv[p].phase = "FileSystemError" =>
                /\ ~writable
                /\ inv[p].build_path \notin dirs

\* C10 witness: two invocations for the same build type have their children
\* running in the same directory at the same time.
C10_Witness ==
    \E p, q \in Procs :
        /\ p # q
        /\ inv[p].phase = "Delegated"
        /\ inv[q].phase = "Delegated"
        /\ inv[p].cwd = inv[q].cwd
        /\ inv[p].made = 1
        /\ inv[q].made = 1

====
